---- MODULE Spec2Model ----
(***************************************************************************)
(* Model of src/objects/session.cpp / session.hpp: the Session wrapper     *)
(* around a sqlite3_session handle, its registration with the owning       *)
(* Database, and the hand-off of the engine's changeset allocation to a    *)
(* host Buffer.                                                            *)
(*                                                                         *)
(* The Database object, the addon's id counter, the REQUIRE_DATABASE_*     *)
(* macros and SAFE_NEW_BUFFER live outside the two source files; they are  *)
(* modelled by the interface the sources use.  The sqlite3session_* calls  *)
(* are modelled by what the SQLite session extension does for each call    *)
(* the source makes.                                                       *)
(*                                                                         *)
(* Spec is the whole system.  Three restrictions of it are model-checked:  *)
(* SpecLifecycle (several sessions and connections: creation, close,       *)
(* reclamation, connection shutdown), SpecSession (one session on one      *)
(* connection, every operation, the host always able to build a Buffer)    *)
(* and SpecBuffer (one session recording every table, the host free to     *)
(* fail).  The operations SpecLifecycle leaves out keep every lifecycle    *)
(* variable UNCHANGED, and sessions share no engine state.                 *)
(***************************************************************************)
EXTENDS Integers, Sequences, FiniteSets, TLC

\* ---------------------------------------------------------------- bounds
MaxSessions == 2      \* Session objects ever constructed
NumDbs      == 2      \* Database objects
NumTables   == 2      \* tables of the schema
MaxAllocs   == 2      \* engine allocations outstanding at one time

Sess   == 1..MaxSessions
Dbs    == 1..NumDbs
Tables == 1..NumTables
Allocs == 1..MaxAllocs

\* NULL: the table name of a wildcard sqlite3session_attach, and the buffer
\* sqlite3session_changeset leaves when it has nothing to write.
NULL == 0

\* ------------------------------------------------------------ JS values
\* A JavaScript argument value: <<type, payload>>.
JsValues ==
    {<<"undefined", 0>>, <<"number", 0>>}
      \cup {<<"boolean", b>> : b \in {0, 1}}
      \cup {<<"string", t>> : t \in Tables}

\* Argument lists.  The methods read info.Length() and info[0] only, so a
\* call has no argument, one argument, or one argument and a further one
\* that stands for everything after info[0].
ArgLists == {<<>>} \cup {<<v>> : v \in JsValues}
                  \cup {<<v, <<"number", 0>> >> : v \in JsValues}

IsNullOrUndefined(v) == v[1] = "undefined"
IsString(v)          == v[1] = "string"
IsBoolean(v)         == v[1] = "boolean"
BooleanValue(v)      == v[2] = 1

\* ----------------------------------------------------------------- state
VARIABLES
    open,        \* Database: open[d], the connection is open
    busy,        \* Database: busy[d], an iterator is running on it
    sessions,    \* Database: sessions[d], the registry of live sessions
    forced,      \* Database: the sessions d force-closed when it was closed
    liveAtClose, \* Database: sessions of d still alive when its handle closed
    next_id,     \* Addon: the id counter
    numSessions, \* Session objects constructed so far
    sdb,         \* Session::db
    sid,         \* Session::id
    alive,       \* Session::alive
    deleted,     \* times sqlite3session_delete ran on Session::session_handle
    wrapped,     \* the wrapper object still exists (not yet reclaimed)
    eng,         \* engine state behind session_handle
    asked,       \* what the caller attached and switched through calls that returned
    heap,        \* engine allocations handed out by sqlite3session_changeset
    lastOp       \* the last call, its arguments and what it returned

vars == <<open, busy, sessions, forced, liveAtClose, next_id, numSessions,
          sdb, sid, alive, deleted, wrapped, eng, asked, heap, lastOp>>

dbVars   == <<open, busy, sessions, forced, liveAtClose>>
sessVars == <<next_id, numSessions, sdb, sid, alive, deleted, wrapped>>
engVars  == <<eng, asked>>

\* Engine state of a freshly created sqlite3_session: no table attached,
\* no auto-attach, recording enabled, nothing recorded.  seen is the set of
\* tables whose row changes reached the session's hook, recorded or not.
NewEngine == [tabs |-> {}, auto |-> FALSE, enabled |-> TRUE, changes |-> {},
              seen |-> {}]
\* What the caller asked of a new session: no table, and (rec) recording
\* left on.
NoAsk     == [tabs |-> {}, all |-> FALSE, rec |-> TRUE]

\* A call record: the operation, the session and connection it was made on,
\* its arguments, the value or error it returned, whether it called the
\* engine, whether the session was alive before it, and the tables of the
\* changeset returned (of the row changed, for a mutation).  For a changeset
\* call, prev is what the call right before it returned if that was a
\* successful changeset on the same session, else "none".  usedDb: the call
\* read or called the session's Database through Session::db.  inReg: the
\* session was in a registry at the moment the call deleted its handle.
NoOp == [op |-> "init", s |-> 0, d |-> 0, args |-> <<>>, res |-> "ok",
         engine |-> FALSE, wasAlive |-> FALSE, tables |-> {}, prev |-> "none",
         usedDb |-> FALSE, inReg |-> FALSE]

Init ==
    /\ open = [d \in Dbs |-> TRUE]
    /\ busy = [d \in Dbs |-> FALSE]
    /\ sessions = [d \in Dbs |-> {}]
    /\ forced = [d \in Dbs |-> {}]
    /\ liveAtClose = [d \in Dbs |-> {}]
    /\ next_id = 0
    /\ numSessions = 0
    /\ sdb = [s \in Sess |-> 0]
    /\ sid = [s \in Sess |-> 0]
    /\ alive = [s \in Sess |-> FALSE]
    /\ deleted = [s \in Sess |-> 0]
    /\ wrapped = [s \in Sess |-> FALSE]
    /\ eng = [s \in Sess |-> NewEngine]
    /\ asked = [s \in Sess |-> NoAsk]
    /\ heap = <<>>
    /\ lastOp = NoOp

\* -------------------------------------------------------------- helpers
Created == 1..numSessions

\* Session::Compare (session.hpp:10): the order of the Database's registry.
Compare(a, b) == sid[a] < sid[b]

\* Database::AddSession / RemoveSession on a registry ordered by Compare:
\* two sessions neither of which is less than the other are one element.
AddSession(reg, ids, s) ==
    IF \E x \in reg : ids[x] = ids[s] THEN reg ELSE reg \cup {s}

RemoveSession(reg, s) ==
    {x \in reg : Compare(x, s) \/ Compare(s, x)}

\* s is an element of some Database's registry.
InRegistry(reg, s) == \E d \in Dbs : s \in reg[d]

\* Addon::NextId: returns the counter and advances it.
NextId(n) == [id |-> n, next |-> n + 1]

\* REQUIRE_DATABASE_OPEN / REQUIRE_DATABASE_NOT_BUSY on Database::GetState.
DatabaseOpen(d)    == open[d]
DatabaseNotBusy(d) == ~busy[d]

\* ------------------------------------------------------- engine (SQLite)
\* sqlite3session_attach: a name adds that table; NULL turns on auto-attach
\* of every table.  Nothing is ever detached.
sqlite3session_attach(e, name) ==
    IF name = NULL THEN [e EXCEPT !.auto = TRUE]
    ELSE [e EXCEPT !.tabs = @ \cup {name}]

\* sqlite3session_enable: sets the recording flag only.
sqlite3session_enable(e, flag) == [e EXCEPT !.enabled = flag]

\* sqlite3session_changeset: serialises what the session has recorded; the
\* session object keeps its records.
sqlite3session_changeset(e) == [tables |-> e.changes, after |-> e]

\* The engine's pre-update hook on a row change of table t: an enabled
\* session records it if t is attached or auto-attach is on.
PreUpdate(e, t) ==
    IF e.enabled /\ (t \in e.tabs \/ e.auto)
    THEN [e EXCEPT !.changes = @ \cup {t}, !.seen = @ \cup {t}]
    ELSE [e EXCEPT !.seen = @ \cup {t}]

\* ------------------------------------------------------ Session methods
CloseHandles_Unguarded(S) ==
    /\ alive' = [x \in Sess |-> IF x \in S THEN FALSE ELSE alive[x]]
    /\ deleted' = [x \in Sess |-> IF x \in S THEN deleted[x] + 1 ELSE deleted[x]]
    /\ eng' = [x \in Sess |-> IF x \in S THEN NewEngine ELSE eng[x]]
    /\ asked' = [x \in Sess |-> IF x \in S THEN NoAsk ELSE asked[x]]

\* Session::CloseHandles (session.cpp:22) applied to each session of S:
\* sqlite3session_delete takes the engine state with it.
CloseHandles(S) ==
    /\ alive' = [x \in Sess |-> IF x \in S THEN FALSE ELSE alive[x]]
    /\ deleted' = [x \in Sess |->
          IF x \in S /\ alive[x] THEN deleted[x] + 1 ELSE deleted[x]]
    /\ eng' = [x \in Sess |-> IF x \in S /\ alive[x] THEN NewEngine ELSE eng[x]]
    /\ asked' = [x \in Sess |-> IF x \in S /\ alive[x] THEN NoAsk ELSE asked[x]]

Session_NoAdd(s, d, id) ==
    /\ sdb' = [sdb EXCEPT ![s] = d]
    /\ sid' = [sid EXCEPT ![s] = id]
    /\ alive' = [alive EXCEPT ![s] = TRUE]
    /\ wrapped' = [wrapped EXCEPT ![s] = TRUE]
    /\ UNCHANGED sessions

\* Session::Session (session.cpp:1): fields, then db->AddSession(this).
Session(s, d, id) ==
    /\ sdb' = [sdb EXCEPT ![s] = d]
    /\ sid' = [sid EXCEPT ![s] = id]
    /\ alive' = [alive EXCEPT ![s] = TRUE]
    /\ wrapped' = [wrapped EXCEPT ![s] = TRUE]
    /\ sessions' = [sessions EXCEPT ![d] = AddSession(@, sid', s)]

NewRefused_NoBusyCheck(d, privileged) ==
    IF ~privileged THEN "disabled"
    ELSE IF ~DatabaseOpen(d) THEN "notopen"
    ELSE "no"

\* The checks JS_new starts with (session.cpp:40-44): the constructor is
\* disabled for callers without privileged_info, then REQUIRE_DATABASE_OPEN,
\* then REQUIRE_DATABASE_NOT_BUSY.
NewRefused(d, privileged) ==
    IF ~privileged THEN "disabled"
    ELSE IF ~DatabaseOpen(d) THEN "notopen"
    ELSE IF ~DatabaseNotBusy(d) THEN "busy"
    ELSE "no"

NewSessionId_Count(d) == Cardinality(sessions[d])

\* The id handed to the constructor (session.cpp:60): addon->NextId().
NewSessionId(d) == NextId(next_id).id

JS_new_ConstructFirst(d, privileged, status) ==
    LET s    == numSessions + 1
        call == [NoOp EXCEPT !.op = "new", !.d = d]
    IN
    IF NewRefused(d, privileged) # "no" THEN
        /\ lastOp' = [NoOp EXCEPT !.op = "new", !.d = d,
                                  !.res = NewRefused(d, privileged)]
        /\ UNCHANGED <<dbVars, sessVars, engVars, heap>>
    ELSE
        /\ numSessions < MaxSessions
        /\ Session(s, d, NewSessionId(d))
        /\ next_id' = NextId(next_id).next
        /\ numSessions' = s
        /\ lastOp' = [call EXCEPT !.s = s, !.engine = TRUE,
                 !.res = IF status # "SQLITE_OK" THEN "dberror" ELSE "self"]
        /\ UNCHANGED <<open, busy, forced, liveAtClose, deleted, engVars, heap>>

\* Session::JS_new (session.cpp:38).  status is the engine's answer to
\* sqlite3session_create; it fails when no further session can be made.
JS_new(d, privileged, status) ==
    LET s    == numSessions + 1
        call == [NoOp EXCEPT !.op = "new", !.d = d]
    IN
    IF NewRefused(d, privileged) # "no" THEN
        /\ lastOp' = [NoOp EXCEPT !.op = "new", !.d = d,
                                  !.res = NewRefused(d, privileged)]
        /\ UNCHANGED <<dbVars, sessVars, engVars, heap>>
    ELSE IF status # "SQLITE_OK" THEN
        /\ lastOp' = [call EXCEPT !.res = "dberror", !.engine = TRUE]
        /\ UNCHANGED <<dbVars, sessVars, engVars, heap>>
    ELSE
        /\ numSessions < MaxSessions
        /\ Session(s, d, NewSessionId(d))
        /\ next_id' = NextId(next_id).next
        /\ numSessions' = s
        /\ lastOp' = [call EXCEPT !.s = s, !.res = "self", !.engine = TRUE]
        /\ UNCHANGED <<open, busy, forced, liveAtClose, deleted, engVars, heap>>

\* Session::~Session (session.cpp:16), run when the host reclaims the wrapper.
SessionDtor(s) ==
    /\ s \in Created /\ wrapped[s]
    /\ sessions' = IF alive[s]
                   THEN [sessions EXCEPT ![sdb[s]] = RemoveSession(@, s)]
                   ELSE sessions
    /\ CloseHandles({s})
    /\ wrapped' = [wrapped EXCEPT ![s] = FALSE]
    /\ lastOp' = [NoOp EXCEPT !.op = "dtor", !.s = s, !.engine = alive[s],
                              !.wasAlive = alive[s], !.usedDb = alive[s],
                              !.inReg = alive[s] /\ InRegistry(sessions', s)]
    /\ UNCHANGED <<open, busy, forced, liveAtClose, next_id, numSessions,
                   sdb, sid, heap>>

JS_close_NoRemove(s) ==
    /\ s \in Created /\ wrapped[s]
    /\ IF alive[s]
       THEN /\ UNCHANGED sessions
            /\ CloseHandles({s})
       ELSE UNCHANGED <<sessions, alive, deleted, engVars>>
    /\ lastOp' = [NoOp EXCEPT !.op = "close", !.s = s, !.res = "self",
                              !.engine = alive[s], !.wasAlive = alive[s]]
    /\ UNCHANGED <<open, busy, forced, liveAtClose, next_id, numSessions,
                   sdb, sid, wrapped, heap>>

JS_close_Strict(s) ==
    /\ s \in Created /\ wrapped[s]
    /\ IF alive[s]
       THEN /\ sessions' = [sessions EXCEPT ![sdb[s]] = RemoveSession(@, s)]
            /\ CloseHandles({s})
            /\ lastOp' = [NoOp EXCEPT !.op = "close", !.s = s, !.res = "self",
                                      !.engine = TRUE, !.wasAlive = TRUE]
       ELSE /\ UNCHANGED <<sessions, alive, deleted, engVars>>
            /\ lastOp' = [NoOp EXCEPT !.op = "close", !.s = s, !.res = "closed"]
    /\ UNCHANGED <<open, busy, forced, liveAtClose, next_id, numSessions,
                   sdb, sid, wrapped, heap>>

JS_close_ReleaseFirst(s) ==
    /\ s \in Created /\ wrapped[s]
    /\ IF alive[s]
       THEN /\ CloseHandles({s})
            /\ sessions' = [sessions EXCEPT ![sdb[s]] = RemoveSession(@, s)]
       ELSE UNCHANGED <<sessions, alive, deleted, engVars>>
    /\ lastOp' = [NoOp EXCEPT !.op = "close", !.s = s, !.res = "self",
                              !.engine = alive[s], !.wasAlive = alive[s],
                              !.usedDb = alive[s],
                              !.inReg = alive[s] /\ InRegistry(sessions, s)]
    /\ UNCHANGED <<open, busy, forced, liveAtClose, next_id, numSessions,
                   sdb, sid, wrapped, heap>>

JS_close_AlwaysRemove(s) ==
    /\ s \in Created /\ wrapped[s]
    /\ sessions' = [sessions EXCEPT ![sdb[s]] = RemoveSession(@, s)]
    /\ CloseHandles({s})
    /\ lastOp' = [NoOp EXCEPT !.op = "close", !.s = s, !.res = "self",
                              !.engine = alive[s], !.wasAlive = alive[s],
                              !.usedDb = TRUE,
                              !.inReg = alive[s] /\ InRegistry(sessions', s)]
    /\ UNCHANGED <<open, busy, forced, liveAtClose, next_id, numSessions,
                   sdb, sid, wrapped, heap>>

\* Session::JS_close (session.cpp:160): for an alive session,
\* db->RemoveSession first, then CloseHandles deletes the handle.
JS_close(s) ==
    /\ s \in Created /\ wrapped[s]
    /\ IF alive[s]
       THEN /\ sessions' = [sessions EXCEPT ![sdb[s]] = RemoveSession(@, s)]
            /\ CloseHandles({s})
       ELSE UNCHANGED <<sessions, alive, deleted, engVars>>
    /\ lastOp' = [NoOp EXCEPT !.op = "close", !.s = s, !.res = "self",
                              !.engine = alive[s], !.wasAlive = alive[s],
                              !.usedDb = alive[s],
                              !.inReg = alive[s] /\ InRegistry(sessions', s)]
    /\ UNCHANGED <<open, busy, forced, liveAtClose, next_id, numSessions,
                   sdb, sid, wrapped, heap>>

Refused_NoAliveCheck(s) ==
    IF ~DatabaseOpen(sdb[s]) THEN "notopen" ELSE "no"

\* The checks every method but close starts with (session.cpp:69-70, 98-99,
\* 121-122): "closed" for a dead session, then REQUIRE_DATABASE_OPEN.
Refused(s) ==
    IF ~alive[s] THEN "closed"
    ELSE IF ~DatabaseOpen(sdb[s]) THEN "notopen"
    ELSE "no"

\* The caller names a table (session.cpp:77): an argument that is neither
\* null nor undefined.
HasName(args) == Len(args) > 0 /\ ~IsNullOrUndefined(args[1])

AttachName_Null(args) == NULL

\* The table name handed to sqlite3session_attach (session.cpp:83, 89).
AttachName(args) == IF HasName(args) THEN args[1][2] ELSE NULL

JS_attach_CloseOnError(s, args, status) ==
    LET call == [NoOp EXCEPT !.op = "attach", !.s = s, !.args = args,
                             !.wasAlive = alive[s], !.usedDb = alive[s]]
    IN
    /\ s \in Created /\ wrapped[s]
    /\ IF Refused(s) # "no" THEN
           /\ lastOp' = [call EXCEPT !.res = Refused(s)]
           /\ UNCHANGED <<sessions, alive, deleted, engVars>>
       ELSE IF HasName(args) /\ ~IsString(args[1]) THEN
           /\ lastOp' = [call EXCEPT !.res = "usage"]
           /\ UNCHANGED <<sessions, alive, deleted, engVars>>
       ELSE IF status # "SQLITE_OK" THEN
           /\ sessions' = [sessions EXCEPT ![sdb[s]] = RemoveSession(@, s)]
           /\ CloseHandles({s})
           /\ lastOp' = [call EXCEPT !.res = "dberror", !.engine = TRUE]
       ELSE
           /\ eng' = [eng EXCEPT ![s] = sqlite3session_attach(@, AttachName(args))]
           /\ asked' = IF HasName(args)
                       THEN [asked EXCEPT ![s].tabs = @ \cup {args[1][2]}]
                       ELSE [asked EXCEPT ![s].all = TRUE]
           /\ lastOp' = [call EXCEPT !.res = "ok", !.engine = TRUE]
           /\ UNCHANGED <<sessions, alive, deleted>>
    /\ UNCHANGED <<open, busy, forced, liveAtClose, next_id, numSessions,
                   sdb, sid, wrapped, heap>>

\* Session::JS_attach (session.cpp:67).
JS_attach(s, args, status) ==
    LET call == [NoOp EXCEPT !.op = "attach", !.s = s, !.args = args,
                             !.wasAlive = alive[s], !.usedDb = alive[s]]
    IN
    /\ s \in Created /\ wrapped[s]
    /\ IF Refused(s) # "no" THEN
           /\ lastOp' = [call EXCEPT !.res = Refused(s)]
           /\ UNCHANGED engVars
       ELSE IF HasName(args) /\ ~IsString(args[1]) THEN
           /\ lastOp' = [call EXCEPT !.res = "usage"]
           /\ UNCHANGED engVars
       ELSE IF status # "SQLITE_OK" THEN
           /\ lastOp' = [call EXCEPT !.res = "dberror", !.engine = TRUE]
           /\ UNCHANGED engVars
       ELSE
           /\ eng' = [eng EXCEPT ![s] = sqlite3session_attach(@, AttachName(args))]
           /\ asked' = IF HasName(args)
                       THEN [asked EXCEPT ![s].tabs = @ \cup {args[1][2]}]
                       ELSE [asked EXCEPT ![s].all = TRUE]
           /\ lastOp' = [call EXCEPT !.res = "ok", !.engine = TRUE]
    /\ UNCHANGED <<dbVars, sessVars, heap>>

EnableArgsOk_NoTypeCheck(args) == ~(Len(args) < 1)

\* The argument check of enable (session.cpp:104).
EnableArgsOk(args) == ~(Len(args) < 1 \/ ~IsBoolean(args[1]))

JS_enable_Unchecked(s, args) ==
    LET call == [NoOp EXCEPT !.op = "enable", !.s = s, !.args = args,
                             !.wasAlive = alive[s]]
    IN
    /\ s \in Created /\ wrapped[s]
    /\ IF ~EnableArgsOk(args) THEN
           /\ lastOp' = [call EXCEPT !.res = "usage"]
           /\ UNCHANGED engVars
       ELSE
           /\ eng' = [eng EXCEPT ![s] =
                         sqlite3session_enable(@, BooleanValue(args[1]))]
           /\ asked' = [asked EXCEPT ![s].rec = BooleanValue(args[1])]
           /\ lastOp' = [call EXCEPT !.res = "ok", !.engine = TRUE]
    /\ UNCHANGED <<dbVars, sessVars, heap>>

EnableFlag_AlwaysOn(args) == TRUE

\* The flag handed to sqlite3session_enable (session.cpp:108).
EnableFlag(args) == BooleanValue(args[1])

JS_enable_Reset(s, args) ==
    LET call == [NoOp EXCEPT !.op = "enable", !.s = s, !.args = args,
                             !.wasAlive = alive[s], !.usedDb = alive[s]]
    IN
    /\ s \in Created /\ wrapped[s]
    /\ IF Refused(s) # "no" THEN
           /\ lastOp' = [call EXCEPT !.res = Refused(s)]
           /\ UNCHANGED engVars
       ELSE IF ~EnableArgsOk(args) THEN
           /\ lastOp' = [call EXCEPT !.res = "usage"]
           /\ UNCHANGED engVars
       ELSE
           /\ eng' = [eng EXCEPT ![s] =
                 [sqlite3session_enable(@, EnableFlag(args)) EXCEPT !.changes = {}]]
           /\ asked' = [asked EXCEPT ![s].rec = BooleanValue(args[1])]
           /\ lastOp' = [call EXCEPT !.res = "ok", !.engine = TRUE]
    /\ UNCHANGED <<dbVars, sessVars, heap>>

\* Session::JS_enable (session.cpp:96).
JS_enable(s, args) ==
    LET call == [NoOp EXCEPT !.op = "enable", !.s = s, !.args = args,
                             !.wasAlive = alive[s], !.usedDb = alive[s]]
    IN
    /\ s \in Created /\ wrapped[s]
    /\ IF Refused(s) # "no" THEN
           /\ lastOp' = [call EXCEPT !.res = Refused(s)]
           /\ UNCHANGED engVars
       ELSE IF ~EnableArgsOk(args) THEN
           /\ lastOp' = [call EXCEPT !.res = "usage"]
           /\ UNCHANGED engVars
       ELSE
           /\ eng' = [eng EXCEPT ![s] =
                         sqlite3session_enable(@, EnableFlag(args))]
           /\ asked' = [asked EXCEPT ![s].rec = BooleanValue(args[1])]
           /\ lastOp' = [call EXCEPT !.res = "ok", !.engine = TRUE]
    /\ UNCHANGED <<dbVars, sessVars, heap>>

\* ------------------------------------------------- changeset and buffers
\* A heap cell: how often sqlite3_free ran on the allocation, and the state
\* of the Buffer finalizer registered for it ("none", "pending", "ran").
Cell(frees, fin) == [frees |-> frees, fin |-> fin]

\* An allocation freed once with no finalizer left to run is back with the
\* engine's allocator and leaves the heap; any other cell stays.
Settled(c) == c.frees = 1 /\ c.fin # "pending"
Reclaim(h) == SelectSeq(h, LAMBDA c : ~Settled(c))

sqlite3_free(c) == [c EXCEPT !.frees = @ + 1]

\* FreeSqliteMemory (session.cpp:115): the Buffer's finalizer.
FreeSqliteMemory(c) == [sqlite3_free(c) EXCEPT !.fin = "ran"]

\* SAFE_NEW_BUFFER(isolate, data, size, FreeSqliteMemory, NULL): the host
\* takes the allocation over with the call.  On success the finalizer is
\* pending; on failure the host either ran it before returning or left it
\* registered on the backing store it had already created.
BufferOutcomes == {"ok", "failed_finalized", "failed_registered"}

SAFE_NEW_BUFFER(c, outcome) ==
    CASE outcome = "ok" ->
            [empty |-> FALSE, cell |-> [c EXCEPT !.fin = "pending"]]
      [] outcome = "failed_finalized" ->
            [empty |-> TRUE, cell |-> FreeSqliteMemory(c)]
      [] outcome = "failed_registered" ->
            [empty |-> TRUE, cell |-> [c EXCEPT !.fin = "pending"]]

\* What changeset does with the allocation when SAFE_NEW_BUFFER returned
\* nothing (session.cpp:152-153): sqlite3_free(buffer).
OnBufferFailure(c) == sqlite3_free(c)

NoChanges_And(buffer, size) == buffer = NULL /\ size = 0

\* The "no changes" test of changeset (session.cpp:136).
NoChanges(buffer, size) == buffer = NULL \/ size = 0

\* Session::JS_changeset (session.cpp:119).  status and zeroLen are the
\* engine's choices (failure; a non-NULL buffer of size 0), outcome the
\* host's.  The engine fails when it cannot allocate.
JS_changeset(s, status, zeroLen, outcome) ==
    LET before == IF lastOp.op = "changeset" /\ lastOp.s = s
                        /\ lastOp.res \in {"buffer", "undefined"}
                  THEN lastOp.res ELSE "none"
        call == [NoOp EXCEPT !.op = "changeset", !.s = s,
                             !.wasAlive = alive[s], !.prev = before,
                             !.usedDb = alive[s]]
    IN
    /\ s \in Created /\ wrapped[s]
    /\ IF Refused(s) # "no" THEN
           /\ lastOp' = [call EXCEPT !.res = Refused(s)]
           /\ UNCHANGED <<engVars, heap>>
       ELSE IF status # "SQLITE_OK" THEN
           /\ lastOp' = [call EXCEPT !.res = "dberror", !.engine = TRUE]
           /\ UNCHANGED <<engVars, heap>>
       ELSE
           LET r      == sqlite3session_changeset(eng[s])
               size   == Cardinality(r.tables)
               buffer == IF size = 0 /\ ~zeroLen THEN NULL ELSE Len(heap) + 1
           IN
           /\ buffer # NULL => Len(heap) < MaxAllocs
           /\ eng' = [eng EXCEPT ![s] = r.after]
           /\ UNCHANGED asked
           /\ IF NoChanges(buffer, size) THEN
                  /\ heap' = IF buffer # NULL
                             THEN Reclaim(Append(heap, sqlite3_free(Cell(0, "none"))))
                             ELSE heap
                  /\ lastOp' = [call EXCEPT !.res = "undefined", !.engine = TRUE]
              ELSE
                  LET result == SAFE_NEW_BUFFER(Cell(0, "none"), outcome) IN
                  IF result.empty THEN
                      /\ heap' = Reclaim(Append(heap, OnBufferFailure(result.cell)))
                      /\ lastOp' = [call EXCEPT !.res = "buferror", !.engine = TRUE]
                  ELSE
                      /\ heap' = Reclaim(Append(heap, result.cell))
                      /\ lastOp' = [call EXCEPT !.res = "buffer", !.engine = TRUE,
                                                !.tables = r.tables]
    /\ UNCHANGED <<dbVars, sessVars>>

\* The host reclaims a Buffer and runs its finalizer.
RunFinalizer(a) ==
    /\ a \in 1..Len(heap)
    /\ heap[a].fin = "pending"
    /\ heap' = Reclaim([heap EXCEPT ![a] = FreeSqliteMemory(@)])
    /\ lastOp' = [NoOp EXCEPT !.op = "finalizer"]
    /\ UNCHANGED <<dbVars, sessVars, engVars>>

\* ----------------------------------------------------------- environment
\* A row of table t is changed through connection d.
Mutate(d, t) ==
    /\ open[d]
    /\ eng' = [x \in Sess |->
          IF x \in Created /\ sdb[x] = d /\ alive[x]
          THEN PreUpdate(eng[x], t) ELSE eng[x]]
    /\ lastOp' = [NoOp EXCEPT !.op = "mutate", !.d = d, !.tables = {t}]
    /\ UNCHANGED <<dbVars, sessVars, asked, heap>>

\* An iterator starts or ends on connection d (Database busy state).
SetBusy(d, b) ==
    /\ open[d] /\ busy[d] # b
    /\ busy' = [busy EXCEPT ![d] = b]
    /\ lastOp' = [NoOp EXCEPT !.op = "busy", !.d = d]
    /\ UNCHANGED <<open, sessions, forced, liveAtClose, sessVars, engVars, heap>>

\* The Database is closed: it calls CloseHandles on every session of its
\* registry, empties the registry, then closes its own handle.
DatabaseClose(d) ==
    /\ open[d] /\ ~busy[d]
    /\ CloseHandles(sessions[d])
    /\ forced' = [forced EXCEPT ![d] = sessions[d]]
    /\ sessions' = [sessions EXCEPT ![d] = {}]
    /\ open' = [open EXCEPT ![d] = FALSE]
    /\ liveAtClose' = [liveAtClose EXCEPT ![d] =
                          {x \in Created : sdb[x] = d /\ alive'[x]}]
    /\ lastOp' = [NoOp EXCEPT !.op = "dbclose", !.d = d]
    /\ UNCHANGED <<busy, next_id, numSessions, sdb, sid, wrapped, heap>>

Statuses == {"SQLITE_OK", "SQLITE_ERROR"}

\* ------------------------------------------------------- specifications
\* The whole system.
Next ==
    \/ \E d \in Dbs, p \in BOOLEAN, st \in Statuses : JS_new(d, p, st)
    \/ \E s \in Sess, a \in ArgLists, st \in Statuses : JS_attach(s, a, st)
    \/ \E s \in Sess, a \in ArgLists : JS_enable(s, a)
    \/ \E s \in Sess, st \in Statuses, z \in BOOLEAN, o \in BufferOutcomes :
          JS_changeset(s, st, z, o)
    \/ \E s \in Sess : JS_close(s)
    \/ \E s \in Sess : SessionDtor(s)
    \/ \E a \in Allocs : RunFinalizer(a)
    \/ \E d \in Dbs, t \in Tables : Mutate(d, t)
    \/ \E d \in Dbs, b \in BOOLEAN : SetBusy(d, b)
    \/ \E d \in Dbs : DatabaseClose(d)

Spec == Init /\ [][Next]_vars

\* Lifecycle: sessions are created on any connection, closed, reclaimed, and
\* force-closed by their connection.
NextLifecycle ==
    \/ \E d \in Dbs, p \in BOOLEAN, st \in Statuses : JS_new(d, p, st)
    \/ \E s \in Sess : JS_close(s)
    \/ \E s \in Sess : SessionDtor(s)
    \/ \E d \in Dbs, b \in BOOLEAN : SetBusy(d, b)
    \/ \E d \in Dbs : DatabaseClose(d)

SpecLifecycle == Init /\ [][NextLifecycle]_vars

\* One session on one connection, every operation; the host builds every
\* Buffer it is asked for.
TheDb == {d \in Dbs : \A e \in Dbs : d <= e}

NextSession ==
    \/ \E d \in TheDb, p \in BOOLEAN, st \in Statuses :
          numSessions = 0 /\ JS_new(d, p, st)
    \/ \E s \in Sess, a \in ArgLists, st \in Statuses : JS_attach(s, a, st)
    \/ \E s \in Sess, a \in ArgLists : JS_enable(s, a)
    \/ \E s \in Sess, st \in Statuses, z \in BOOLEAN :
          JS_changeset(s, st, z, "ok")
    \/ \E s \in Sess : JS_close(s)
    \/ \E s \in Sess : SessionDtor(s)
    \/ \E a \in Allocs : RunFinalizer(a)
    \/ \E d \in TheDb, t \in Tables : Mutate(d, t)
    \/ \E d \in TheDb, b \in BOOLEAN : SetBusy(d, b)
    \/ \E d \in TheDb : DatabaseClose(d)

SpecSession == Init /\ [][NextSession]_vars

\* One session on one connection, attached to every table; the host may
\* fail to build the Buffer of a changeset.
NextBuffer ==
    \/ \E d \in TheDb, p \in BOOLEAN, st \in Statuses :
          numSessions = 0 /\ JS_new(d, p, st)
    \/ \E s \in Sess, st \in Statuses : JS_attach(s, <<>>, st)
    \/ \E s \in Sess, st \in Statuses, z \in BOOLEAN, o \in BufferOutcomes :
          JS_changeset(s, st, z, o)
    \/ \E s \in Sess : JS_close(s)
    \/ \E s \in Sess : SessionDtor(s)
    \/ \E a \in Allocs : RunFinalizer(a)
    \/ \E d \in TheDb, t \in Tables : Mutate(d, t)
    \/ \E d \in TheDb : DatabaseClose(d)

SpecBuffer == Init /\ [][NextBuffer]_vars


\* ---------------------------------------------------------------- claims
Methods     == {"attach", "enable", "changeset"}
UsageErrors == {"closed", "notopen", "usage"}
Registries(s) == {d \in Dbs : s \in sessions[d]}

\* C1: the native handle of a session is released at most once, and only in
\* a step that finds the liveness flag true and leaves it false.
C1_ReleasedOnceWhileAlive ==
    [][\A s \in Sess :
          deleted'[s] # deleted[s] =>
              /\ alive[s] /\ ~alive'[s]
              /\ deleted[s] = 0 /\ deleted'[s] = 1]_vars

\* A session force-closed by its connection whose wrapper was reclaimed
\* afterwards: two of the triggers ran on it.
C1_Witness ==
    /\ lastOp.op = "dtor" /\ ~lastOp.wasAlive
    /\ lastOp.s \in forced[sdb[lastOp.s]]
    /\ deleted[lastOp.s] = 1

\* C2: an alive session is in the registry of its owning connection and of
\* no other; a session that is not alive is in no registry.
C2_RegistryMatchesLiveness ==
    \A s \in Created :
        /\ alive[s] => Registries(s) = {sdb[s]}
        /\ ~alive[s] => Registries(s) = {}

\* An alive session on one connection and a closed one on another.
C2_Witness ==
    \E s, u \in Created :
        /\ alive[s] /\ ~alive[u] /\ sdb[s] # sdb[u]
        /\ Registries(s) = {sdb[s]}

\* C3: when a connection is closed, every session it still had is closed
\* before the connection's own handle is; from then on each of its sessions
\* is not alive and its handle was released exactly once, whatever close or
\* reclamation runs later.
C3_ForcedCloseOnShutdown ==
    \A d \in Dbs :
        ~open[d] =>
            /\ liveAtClose[d] = {}
            /\ \A s \in Created : sdb[s] = d => ~alive[s] /\ deleted[s] = 1

\* A connection closed with two sessions open, and close() or reclamation
\* run on one of them afterwards.
C3_Witness ==
    \E d \in Dbs :
        /\ ~open[d] /\ Cardinality(forced[d]) >= 2
        /\ lastOp.op \in {"close", "dtor"} /\ lastOp.s \in forced[d]

\* C4: attach, enable and changeset on a session that is not alive fail with
\* the "closed" error without calling the engine; an engine call is made
\* only on a handle that was never released.
C4_ClosedSessionRefuses ==
    /\ \A s \in Created : alive[s] => deleted[s] = 0
    /\ lastOp.op \in Methods =>
          /\ ~lastOp.wasAlive => lastOp.res = "closed" /\ ~lastOp.engine
          /\ lastOp.engine => lastOp.wasAlive

\* changeset called on a session its connection force-closed.
C4_Witness ==
    /\ lastOp.op = "changeset" /\ lastOp.res = "closed"
    /\ lastOp.s \in forced[sdb[lastOp.s]]

\* C5: close() always returns the session and leaves it not alive, out of
\* every registry, with its handle released once; on a session that is
\* already not alive it changes nothing.
C5_CloseIdempotent ==
    [][lastOp'.op = "close" =>
          LET s == lastOp'.s IN
          /\ lastOp'.res = "self"
          /\ ~alive'[s] /\ deleted'[s] = 1
          /\ \A d \in Dbs : s \notin sessions'[d]
          /\ ~alive[s] => UNCHANGED <<dbVars, sessVars, engVars, heap>>]_vars

\* close() on a session that was closed already and whose connection is
\* closed too.
C5_Witness ==
    /\ lastOp.op = "close" /\ ~lastOp.wasAlive /\ lastOp.res = "self"
    /\ ~open[sdb[lastOp.s]]

\* C6: every allocation a successful engine changeset call produced is
\* released exactly once: an allocation still on the heap has not been
\* freed and has its finalizer pending.
C6_AllocationReleasedOnce ==
    \A a \in 1..Len(heap) : heap[a].frees = 0 /\ heap[a].fin = "pending"

\* C7 as stated: a successful changeset() right after a successful
\* changeset() on the same session returns "no value".
C7_SecondChangesetEmpty ==
    (lastOp.op = "changeset" /\ lastOp.prev # "none"
        /\ lastOp.res \in {"buffer", "undefined"})
    => lastOp.res = "undefined"

\* C7 amended: a successful changeset() returns "no value" exactly when the
\* session has recorded nothing, else a buffer of everything it recorded;
\* called again right away it returns the same as the first call.
C7_SecondChangesetSame ==
    (lastOp.op = "changeset" /\ lastOp.res \in {"buffer", "undefined"})
    => /\ lastOp.res = "undefined" <=> eng[lastOp.s].changes = {}
       /\ lastOp.res = "buffer" => lastOp.tables = eng[lastOp.s].changes
       /\ lastOp.prev # "none" => lastOp.res = lastOp.prev

\* Two changeset() calls in a row that both returned a buffer.
C7_Witness ==
    /\ lastOp.op = "changeset" /\ lastOp.res = "buffer"
    /\ lastOp.prev = "buffer" /\ lastOp.tables # {}

\* C8: a changeset holds changes only of tables the caller attached, by
\* name or by a wildcard attach.
C8_OnlyAttachedTables ==
    (lastOp.op = "changeset" /\ lastOp.res = "buffer")
    => \/ asked[lastOp.s].all
       \/ lastOp.tables \subseteq asked[lastOp.s].tabs

\* A changeset returned by a session with no wildcard attach after a row of
\* a table it never attached was changed.
C8_Witness ==
    /\ lastOp.op = "changeset" /\ lastOp.res = "buffer"
    /\ ~asked[lastOp.s].all
    /\ eng[lastOp.s].seen \ asked[lastOp.s].tabs # {}

\* C9 as stated: enable() on an alive session of an open connection succeeds
\* only with exactly one argument, a boolean; any other call fails with a
\* usage error and no engine call.
C9_EnableExactlyOneBoolean ==
    (lastOp.op = "enable" /\ lastOp.wasAlive /\ open[sdb[lastOp.s]])
    => IF Len(lastOp.args) = 1 /\ IsBoolean(lastOp.args[1])
       THEN lastOp.res = "ok"
       ELSE lastOp.res = "usage" /\ ~lastOp.engine

\* C9 amended: enable() on an alive session of an open connection succeeds
\* exactly when it has a first argument and that is a boolean, whatever
\* follows it; with no argument or another first argument it fails with a
\* usage error, calls no engine function and leaves the recording state.
C9_EnableFirstBoolean ==
    [][(lastOp'.op = "enable" /\ alive[lastOp'.s] /\ open[sdb[lastOp'.s]]) =>
          LET a == lastOp'.args
              s == lastOp'.s
          IN
          IF Len(a) >= 1 /\ IsBoolean(a[1])
          THEN /\ lastOp'.res = "ok"
               /\ eng'[s].enabled = BooleanValue(a[1])
          ELSE /\ lastOp'.res = "usage" /\ ~lastOp'.engine
               /\ eng' = eng]_vars

\* enable() succeeded with a boolean followed by a second argument.
C9_Witness ==
    /\ lastOp.op = "enable" /\ lastOp.res = "ok"
    /\ Len(lastOp.args) > 1

\* C10 as stated: attach, enable and changeset on a closed session, or on a
\* connection that is not open or is busy, fail with a usage error before
\* any engine call.
C10_RefusedWhenClosedOrBusy ==
    (lastOp.op \in Methods
        /\ (~lastOp.wasAlive \/ ~open[sdb[lastOp.s]] \/ busy[sdb[lastOp.s]]))
    => lastOp.res \in UsageErrors /\ ~lastOp.engine

\* C10 amended: attach, enable and changeset on a closed session, or on a
\* connection that is not open, fail with a usage error before any engine
\* call and change nothing.
C10_RefusedWhenClosed ==
    [][(lastOp'.op \in Methods
          /\ (~alive[lastOp'.s] \/ ~open[sdb[lastOp'.s]])) =>
          /\ lastOp'.res \in {"closed", "notopen"}
          /\ ~lastOp'.engine
          /\ UNCHANGED <<dbVars, sessVars, engVars, heap>>]_vars

\* enable() refused on a session whose connection is not open.
C10_Witness ==
    /\ lastOp.op = "enable" /\ lastOp.res \in UsageErrors
    /\ ~lastOp.engine /\ ~open[sdb[lastOp.s]]

\* C11: a creation request on a connection that is closed or busy fails,
\* makes no engine call, constructs no session and leaves every registry as
\* it was; so a creation succeeds only on an open connection that is not busy.
C11_NoCreationOnClosedOrBusy ==
    [][lastOp'.op = "new" /\ (~open[lastOp'.d] \/ busy[lastOp'.d]) =>
          /\ lastOp'.res \in {"disabled", "notopen", "busy"}
          /\ ~lastOp'.engine
          /\ UNCHANGED <<dbVars, sessVars, engVars, heap>>]_vars

\* A privileged creation request refused on a busy connection that has a
\* session in its registry.
C11_Witness ==
    /\ lastOp.op = "new" /\ lastOp.res = "busy"
    /\ busy[lastOp.d] /\ sessions[lastOp.d] # {}

\* C12: a row mutation made through the connection while the caller has the
\* session's recording switched off by enable(false) adds nothing to what the
\* session has recorded, and a changeset() that succeeds on a session with
\* nothing recorded returns "no value".
C12_DisabledNotRecorded ==
    [][/\ lastOp'.op = "mutate" =>
              \A s \in Created :
                  alive[s] /\ sdb[s] = lastOp'.d /\ ~asked[s].rec =>
                      eng'[s].changes = eng[s].changes
       /\ lastOp'.op = "changeset" /\ lastOp'.res \in {"buffer", "undefined"}
              /\ eng[lastOp'.s].changes = {} =>
                  lastOp'.res = "undefined"]_vars

\* changeset() returned "no value" on a session attached to every table and
\* switched off, after row changes reached its hook.
C12_Witness ==
    /\ lastOp.op = "changeset" /\ lastOp.res = "undefined"
    /\ ~asked[lastOp.s].rec /\ asked[lastOp.s].all
    /\ eng[lastOp.s].seen # {} /\ eng[lastOp.s].changes = {}

\* C13: enable(flag) changes nothing but the recording flag: the changes the
\* session has accumulated, its attached tables, its liveness, its registry
\* membership and every other session are the same after the call as before
\* it; and a newly created session has recording on.
C13_EnableChangesOnlyFlag ==
    [][/\ lastOp'.op = "enable" =>
              /\ \A s \in Sess :
                    /\ eng'[s].changes = eng[s].changes
                    /\ eng'[s].tabs = eng[s].tabs
                    /\ eng'[s].auto = eng[s].auto
                    /\ asked'[s].tabs = asked[s].tabs
                    /\ asked'[s].all = asked[s].all
                    /\ s # lastOp'.s => eng'[s] = eng[s]
              /\ UNCHANGED <<dbVars, sessVars, heap>>
       /\ lastOp'.op = "new" /\ lastOp'.res = "self" =>
              eng'[lastOp'.s].enabled]_vars

\* enable(false) went through on a session that had recorded changes, and
\* the session still has them.
C13_Witness ==
    /\ lastOp.op = "enable" /\ lastOp.res = "ok"
    /\ lastOp.args[1] = <<"boolean", 0>>
    /\ ~eng[lastOp.s].enabled /\ eng[lastOp.s].changes # {}
    /\ alive[lastOp.s] /\ lastOp.s \in sessions[sdb[lastOp.s]]

\* C14: when close() or the wrapper's destructor closes an alive session, the
\* session is already out of every registry at the moment its native handle
\* is deleted and its liveness flag cleared; and after any operation, no
\* session whose handle has been deleted is in a registry.
C14_RemovedBeforeRelease ==
    /\ lastOp.op \in {"close", "dtor"} /\ lastOp.wasAlive =>
          /\ ~lastOp.inReg
          /\ deleted[lastOp.s] = 1 /\ ~alive[lastOp.s]
    /\ \A s \in Created : deleted[s] > 0 => ~InRegistry(sessions, s)

\* The wrapper of an alive session was reclaimed while another session of
\* the same connection stayed registered.
C14_Witness ==
    /\ lastOp.op = "dtor" /\ lastOp.wasAlive /\ ~lastOp.inReg
    /\ deleted[lastOp.s] = 1
    /\ sessions[sdb[lastOp.s]] # {}

\* C15: a creation that fails in the engine (sqlite3session_create) returns
\* the engine's error after the engine call, constructs no Session object
\* and leaves every registry holding exactly the sessions it held.
C15_EngineFailureConstructsNothing ==
    [][lastOp'.op = "new" /\ lastOp'.res = "dberror" =>
          /\ lastOp'.engine
          /\ open[lastOp'.d] /\ ~busy[lastOp'.d]
          /\ numSessions' = numSessions /\ sessions' = sessions
          /\ UNCHANGED <<dbVars, sessVars, engVars, heap>>]_vars

\* The engine refused a session on an open connection that already has one
\* in its registry.
C15_Witness ==
    /\ lastOp.op = "new" /\ lastOp.res = "dberror" /\ lastOp.engine
    /\ sessions[lastOp.d] # {} /\ numSessions = Cardinality(sessions[lastOp.d])

\* C16: any two sessions ever constructed, on one connection or on two, alive
\* or closed, have different ids, the later constructed the larger one, and
\* no id handed out is at or above the counter a later creation draws from.
C16_IdsIncreaseWithCreation ==
    /\ \A s \in Created : \A u \in Created :
          s < u => sid[s] < sid[u] /\ Compare(s, u) /\ ~Compare(u, s)
    /\ \A s \in Created : sid[s] < next_id

\* A second session was created on another connection after the first one
\* had been closed.
C16_Witness ==
    /\ lastOp.op = "new" /\ lastOp.res = "self" /\ lastOp.s = 2
    /\ sdb[1] # sdb[2] /\ ~alive[1] /\ alive[2]

\* C17: when the engine returned a non-empty allocation and the host could
\* not build the Buffer, changeset() fails with a construction error after the
\* engine call, the allocation has been released by one sqlite3_free that
\* found it outstanding, and the session is as alive and as registered as it
\* was.
C17_BufferFailureReleasesAllocation ==
    [][lastOp'.op = "changeset" /\ lastOp'.res = "buferror" =>
          /\ lastOp'.engine
          /\ eng[lastOp'.s].changes # {}
          /\ Len(heap') = Len(heap) + 1 =>
                heap'[Len(heap')].frees = 1
          /\ alive'[lastOp'.s] /\ InRegistry(sessions', lastOp'.s)
          /\ UNCHANGED <<dbVars, sessVars>>]_vars

\* C18: whenever the finalizer of a changeset Buffer runs, before or after
\* session close, connection close and wrapper reclamation, the allocation
\* it frees was still outstanding (the run settles it and it leaves the
\* heap), and the run changes no session's liveness and no registry.
C18_FinalizerFindsAllocationOutstanding ==
    [][lastOp'.op = "finalizer" =>
          /\ Len(heap') < Len(heap)
          /\ UNCHANGED <<dbVars, sessVars, engVars>>]_vars

\* C19: when the engine fails an attach, by table name or wildcard, the call
\* returns a database error and changes nothing: the session is alive, in
\* its connection's registry, its handle not deleted, and its next call is
\* not refused.
C19_AttachFailureLeavesSession ==
    [][lastOp'.op = "attach" /\ lastOp'.res = "dberror" =>
          /\ lastOp'.engine
          /\ alive'[lastOp'.s] /\ deleted'[lastOp'.s] = 0
          /\ lastOp'.s \in sessions'[sdb'[lastOp'.s]]
          /\ open'[sdb'[lastOp'.s]]
          /\ UNCHANGED <<dbVars, sessVars, engVars, heap>>]_vars

\* The engine failed an attach by table name on an alive, registered session.
C19_Witness ==
    /\ lastOp.op = "attach" /\ lastOp.res = "dberror"
    /\ HasName(lastOp.args) /\ IsString(lastOp.args[1])
    /\ alive[lastOp.s] /\ lastOp.s \in sessions[sdb[lastOp.s]]

\* C20: attach, enable, changeset, close and the destructor read or call the
\* session's Database only when they found the session alive; so a call on
\* a session whose connection has force-closed it and is no longer open
\* never reaches the Database.
C20_DbTouchedOnlyWhileAlive ==
    lastOp.op \in Methods \cup {"close", "dtor"} =>
        /\ lastOp.usedDb => lastOp.wasAlive
        /\ ~lastOp.wasAlive => ~lastOp.engine
        /\ lastOp.s \in forced[sdb[lastOp.s]] /\ ~open[sdb[lastOp.s]] =>
              ~lastOp.usedDb

\* close() on a session that its connection had force-closed when it shut
\* down.
C20_Witness ==
    /\ lastOp.op = "close" /\ ~lastOp.usedDb /\ ~lastOp.wasAlive
    /\ lastOp.s \in forced[sdb[lastOp.s]] /\ ~open[sdb[lastOp.s]]

====
